---- MODULE Spec2Model ----
(***************************************************************************)
(* Model of the configuration subsystem of ESP32-CAM_Interval              *)
(* (src/configuration.cpp): the key/value setter config_set, the bulk      *)
(* operations loadConfig and saveConfig, and the JSON rendering.           *)
(*                                                                         *)
(* C strings are sequences of one-character strings, so that parsing       *)
(* (strtol, strtoul, strcasecmp) and formatting (String(int)) are computed *)
(* character by character, as the C library does.                          *)
(***************************************************************************)
EXTENDS Integers, Sequences, FiniteSets, TLC

VARIABLES cfg, file, last, sets, saved, streams

vars == <<cfg, file, last, sets, saved, streams>>

(***************************************************************************)
(* Bounds of the model.                                                    *)
(***************************************************************************)
\* number of direct config_set calls (set-up mode) in one behaviour
MaxSets == 1

(***************************************************************************)
(* C library: characters, strings, integers of the target (ESP32, ILP32).  *)
(***************************************************************************)
UpperChars == <<"A", "B", "C", "D", "E", "F", "G", "H", "I", "J", "K", "L", "M", "N", "O", "P", "Q", "R", "S", "T", "U", "V", "W", "X", "Y", "Z">>
LowerChars == <<"a", "b", "c", "d", "e", "f", "g", "h", "i", "j", "k", "l", "m", "n", "o", "p", "q", "r", "s", "t", "u", "v", "w", "x", "y", "z">>
DigitChars == <<"0", "1", "2", "3", "4", "5", "6", "7", "8", "9">>

\* tolower(3), as strcasecmp applies it to each character
tolower(c) ==
  IF \E i \in 1..26 : UpperChars[i] = c
    THEN LowerChars[CHOOSE i \in 1..26 : UpperChars[i] = c]
    ELSE c

isdigit(c) == \E i \in 1..10 : DigitChars[i] = c

isspace(c) == c \in {" ", "\t", "\n", "\r"}

DigitVal(c) == (CHOOSE i \in 1..10 : DigitChars[i] = c) - 1

\* strcmp(a, b) == 0
strcmp(a, b) == IF a = b THEN 0 ELSE 1

\* strcasecmp(a, b) == 0 iff the strings agree up to the case of letters
strcasecmp(a, b) ==
  IF Len(a) = Len(b) /\ \A i \in 1..Len(a) : tolower(a[i]) = tolower(b[i])
    THEN 0 ELSE 1

strlen(s) == Len(s)

\* the null pointer; a pointer into a string is the offset it points at
NULL == -1

\* long and int are 32 bits wide on the target
LONG_MAX == 2147483647
LONG_MIN == -LONG_MAX - 1

\* An unsigned long (32 bits) is kept as two 16-bit halves, hi * 2^16 + lo.
HalfWord == 65536
U32(h, l) == [hi |-> h, lo |-> l]
ULONG_MAX == U32(HalfWord - 1, HalfWord - 1)
U32FromInt(n) == U32(n \div HalfWord, n % HalfWord)
\* unsigned negation, modulo 2^32
U32Neg(u) ==
  IF u.lo = 0 THEN U32((HalfWord - u.hi) % HalfWord, 0)
              ELSE U32(HalfWord - 1 - u.hi, HalfWord - u.lo)
\* u < n for a small n (n < 2^16)
U32Less(u, n) == u.hi = 0 /\ u.lo < n

\* offset of the first character of s at or after i that is not white space
RECURSIVE SkipSpace(_, _)
SkipSpace(s, i) ==
  IF i <= Len(s) /\ isspace(s[i]) THEN SkipSpace(s, i + 1) ELSE i

\* digits of s from i on, accumulated into a long of the given sign, saturating
RECURSIVE AccLong(_, _, _, _)
AccLong(s, i, neg, acc) ==
  IF i <= Len(s) /\ isdigit(s[i])
    THEN LET d == DigitVal(s[i])
         IN IF neg
              THEN IF acc < (LONG_MIN + d) \div 10 + (IF (LONG_MIN + d) % 10 = 0 THEN 0 ELSE 1)
                     THEN AccLong(s, i + 1, neg, LONG_MIN)
                     ELSE AccLong(s, i + 1, neg, acc * 10 - d)
              ELSE IF acc > (LONG_MAX - d) \div 10
                     THEN AccLong(s, i + 1, neg, LONG_MAX)
                     ELSE AccLong(s, i + 1, neg, acc * 10 + d)
    ELSE [val |-> acc, endp |-> i - 1]

\* digits of s from i on, accumulated into an unsigned long; ovf once it overflowed
RECURSIVE AccULong(_, _, _, _)
AccULong(s, i, acc, ovf) ==
  IF i <= Len(s) /\ isdigit(s[i])
    THEN LET lo10 == acc.lo * 10 + DigitVal(s[i])
             hi10 == acc.hi * 10 + lo10 \div HalfWord
         IN IF ovf \/ hi10 >= HalfWord
              THEN AccULong(s, i + 1, ULONG_MAX, TRUE)
              ELSE AccULong(s, i + 1, U32(hi10, lo10 % HalfWord), FALSE)
    ELSE [val |-> acc, endp |-> i - 1, ovf |-> ovf]

\* strtol(in, &endp, 10): the value, and endp as an offset into in.
\* Without any digit no conversion is done: the value is 0 and endp = in.
strtol(in) ==
  LET i    == SkipSpace(in, 1)
      sgn  == i <= Len(in) /\ in[i] \in {"-", "+"}
      neg  == i <= Len(in) /\ in[i] = "-"
      j    == IF sgn THEN i + 1 ELSE i
  IN IF j <= Len(in) /\ isdigit(in[j])
       THEN AccLong(in, j, neg, 0)
       ELSE [val |-> 0, endp |-> 0]

\* strtoul(in, &endp, 10): as strtol, the value negated modulo 2^32 after a
\* minus sign, ULONG_MAX on overflow.
strtoul(in) ==
  LET i    == SkipSpace(in, 1)
      sgn  == i <= Len(in) /\ in[i] \in {"-", "+"}
      neg  == i <= Len(in) /\ in[i] = "-"
      j    == IF sgn THEN i + 1 ELSE i
  IN IF j <= Len(in) /\ isdigit(in[j])
       THEN LET r == AccULong(in, j, U32(0, 0), FALSE)
            IN [val  |-> IF neg /\ ~r.ovf THEN U32Neg(r.val) ELSE r.val,
                endp |-> r.endp]
       ELSE [val |-> U32(0, 0), endp |-> 0]

\* decimal digits of a natural number
RECURSIVE NatDigits(_)
NatDigits(n) ==
  IF n < 10 THEN <<DigitChars[n + 1]>>
            ELSE NatDigits(n \div 10) \o <<DigitChars[(n % 10) + 1]>>

\* String(int): Arduino's decimal rendering of a signed integer
StringInt(n) ==
  IF n >= 0 THEN NatDigits(n)
  ELSE IF n = LONG_MIN THEN <<"-">> \o NatDigits(LONG_MAX \div 10) \o <<"8">>
  ELSE <<"-">> \o NatDigits(-n)

\* String(unsigned long): decimal rendering, by long division of the halves
RECURSIVE StringU32(_)
StringU32(u) ==
  LET r1 == u.hi % 10
      lo == r1 * HalfWord + u.lo
      q  == U32(u.hi \div 10, lo \div 10)
      d  == <<DigitChars[(lo % 10) + 1]>>
  IN IF u.hi = 0 /\ u.lo < 10 THEN d ELSE StringU32(q) \o d

\* String(bool): a bool is promoted to int, so it prints as 1 or 0
StringBool(b) == StringInt(IF b THEN 1 ELSE 0)

(***************************************************************************)
(* Enumerations and string tables.                                         *)
(***************************************************************************)
\* framesize_t members config_set assigns; each is the index at which
\* frame_size_strings holds the member's WIDTHxHEIGHT spelling
FRAMESIZE_QQVGA == 1
FRAMESIZE_QCIF  == 2
FRAMESIZE_HQVGA == 3
FRAMESIZE_QVGA  == 5
FRAMESIZE_CIF   == 6
FRAMESIZE_VGA   == 8
FRAMESIZE_SVGA  == 9
FRAMESIZE_XGA   == 10
FRAMESIZE_SXGA  == 12
FRAMESIZE_UXGA  == 13
FRAMESIZE_QXGA  == 17

\* Configuration::WbMode and Configuration::SpecialEffect, in declaration order
WbModeAuto   == 0
WbModeSunny  == 1
WbModeCloudy == 2
WbModeOffice == 3
WbModeHome   == 4

SpecialEffectNone      == 0
SpecialEffectNegative  == 1
SpecialEffectGrayscale == 2
SpecialEffectRedTint   == 3
SpecialEffectGreenTint == 4
SpecialEffectBlueTint  == 5
SpecialEffectSepia     == 6

\* sizeof(m_tzinfo): the capacity of the timezone buffer, terminator included
TzinfoSize == 3

\* a C array is indexed from 0
At(table, i) == table[i + 1]

\* frame_size_strings with the spellings of VGA and SVGA exchanged
frame_size_strings_swapped == <<
  <<"9", "6", "x", "9", "6">>, <<"1", "6", "0", "x", "1", "2", "0">>, <<"1", "7", "6", "x", "1", "4", "4">>, <<"2", "4", "0", "x", "1", "7", "6">>, <<"2", "4", "0", "x", "2", "4", "0">>, <<"3", "2", "0", "x", "2", "4", "0">>,
  <<"4", "0", "0", "x", "2", "9", "6">>, <<"4", "8", "0", "x", "3", "2", "0">>, <<"8", "0", "0", "x", "6", "0", "0">>, <<"6", "4", "0", "x", "4", "8", "0">>, <<"1", "0", "2", "4", "x", "7", "6", "8">>, <<"1", "2", "8", "0", "x", "7", "2", "0">>,
  <<"1", "2", "8", "0", "x", "1", "0", "2", "4">>, <<"1", "6", "0", "0", "x", "1", "2", "0", "0">>, <<"1", "9", "2", "0", "x", "1", "0", "8", "0">>, <<"7", "2", "0", "x", "1", "2", "8", "0">>, <<"8", "6", "4", "x", "1", "5", "3", "6">>,
  <<"2", "0", "4", "8", "x", "1", "5", "3", "6">>, <<"2", "5", "6", "0", "x", "1", "4", "4", "0">>, <<"2", "5", "6", "0", "x", "1", "6", "0", "0">>, <<"1", "0", "8", "0", "x", "1", "9", "2", "0">>, <<"2", "5", "6", "0", "x", "1", "9", "2", "0">> >>

frame_size_strings == <<
  <<"9", "6", "x", "9", "6">>, <<"1", "6", "0", "x", "1", "2", "0">>, <<"1", "7", "6", "x", "1", "4", "4">>, <<"2", "4", "0", "x", "1", "7", "6">>, <<"2", "4", "0", "x", "2", "4", "0">>, <<"3", "2", "0", "x", "2", "4", "0">>,
  <<"4", "0", "0", "x", "2", "9", "6">>, <<"4", "8", "0", "x", "3", "2", "0">>, <<"6", "4", "0", "x", "4", "8", "0">>, <<"8", "0", "0", "x", "6", "0", "0">>, <<"1", "0", "2", "4", "x", "7", "6", "8">>, <<"1", "2", "8", "0", "x", "7", "2", "0">>,
  <<"1", "2", "8", "0", "x", "1", "0", "2", "4">>, <<"1", "6", "0", "0", "x", "1", "2", "0", "0">>, <<"1", "9", "2", "0", "x", "1", "0", "8", "0">>, <<"7", "2", "0", "x", "1", "2", "8", "0">>, <<"8", "6", "4", "x", "1", "5", "3", "6">>,
  <<"2", "0", "4", "8", "x", "1", "5", "3", "6">>, <<"2", "5", "6", "0", "x", "1", "4", "4", "0">>, <<"2", "5", "6", "0", "x", "1", "6", "0", "0">>, <<"1", "0", "8", "0", "x", "1", "9", "2", "0">>, <<"2", "5", "6", "0", "x", "1", "9", "2", "0">> >>

wb_mode_strings == << <<"a", "u", "t", "o">>, <<"s", "u", "n", "n", "y">>, <<"c", "l", "o", "u", "d", "y">>, <<"o", "f", "f", "i", "c", "e">>, <<"h", "o", "m", "e">> >>

special_effect_strings == <<
  <<"n", "o", "n", "e">>, <<"n", "e", "g", "a", "t", "i", "v", "e">>, <<"g", "r", "a", "y", "s", "c", "a", "l", "e">>, <<"r", "e", "d", " ", "t", "i", "n", "t">>, <<"g", "r", "e", "e", "n", " ", "t", "i", "n", "t">>,
  <<"b", "l", "u", "e", " ", "t", "i", "n", "t">>, <<"s", "e", "p", "i", "a">> >>

\* orientation_to_rotation with codes 6 and 8 exchanged
orientation_to_rotation_mirrored(orientation) ==
  CASE orientation = 6 -> 270
    [] orientation = 3 -> 180
    [] orientation = 8 -> 90
    [] OTHER -> 0

orientation_to_rotation(orientation) ==
  CASE orientation = 6 -> 90
    [] orientation = 3 -> 180
    [] orientation = 8 -> 270
    [] OTHER -> 0

(***************************************************************************)
(* Primitive parsers.  Each takes the text and the current value of the    *)
(* variable its out pointer refers to, and returns the success flag and    *)
(* the value of that variable after the call.                              *)
(***************************************************************************)
parse_int(in, out) ==
  LET r == strtol(in)
  IN IF r.endp = NULL THEN [ok |-> FALSE, out |-> out]
                      ELSE [ok |-> TRUE, out |-> r.val]

\* parse_bool clearing *out before it reports an unknown spelling
parse_bool_clearing(in, out) ==
  IF strcasecmp(in, <<"t", "r", "u", "e">>) = 0 \/ strcasecmp(in, <<"y", "e", "s">>) = 0
       \/ strcmp(in, <<"1">>) = 0
    THEN [ok |-> TRUE, out |-> TRUE]
  ELSE IF strcasecmp(in, <<"f", "a", "l", "s", "e">>) = 0 \/ strcasecmp(in, <<"n", "o">>) = 0
       \/ strcmp(in, <<"0">>) = 0
    THEN [ok |-> TRUE, out |-> FALSE]
  ELSE [ok |-> FALSE, out |-> FALSE]

parse_bool(in, out) ==
  IF strcasecmp(in, <<"t", "r", "u", "e">>) = 0 \/ strcasecmp(in, <<"y", "e", "s">>) = 0
       \/ strcmp(in, <<"1">>) = 0
    THEN [ok |-> TRUE, out |-> TRUE]
  ELSE IF strcasecmp(in, <<"f", "a", "l", "s", "e">>) = 0 \/ strcasecmp(in, <<"n", "o">>) = 0
       \/ strcmp(in, <<"0">>) = 0
    THEN [ok |-> TRUE, out |-> FALSE]
  ELSE [ok |-> FALSE, out |-> out]

(***************************************************************************)
(* Configuration::config_set, one definition per branch of its key chain.  *)
(* c is the Configuration object; the result is the return value and the   *)
(* object after the call.                                                  *)
(***************************************************************************)
Ret(r, c) == [ret |-> r, cfg |-> c]

config_set_interval(c, value) ==
  LET r  == strtoul(value)
      c1 == [c EXCEPT !.m_capture_interval = r.val]
  IN IF r.endp = NULL THEN Ret(-2, c1)
     ELSE IF U32Less(c1.m_capture_interval, 1000)
       THEN Ret(0, [c1 EXCEPT !.m_capture_interval = U32FromInt(1000)])
       ELSE Ret(0, c1)

config_set_deprecated(c, key) == Ret(0, c)

config_set_timezone(c, value) ==
  IF strlen(value) > TzinfoSize - 1 THEN Ret(-2, c)
  ELSE Ret(0, [c EXCEPT !.m_tzinfo = value])

config_set_rotation(c, value) ==
  LET p == parse_int(value, 0)
      int_value == p.out
  IN IF p.ok # TRUE THEN Ret(-2, c)
     ELSE IF int_value = 0 THEN Ret(0, [c EXCEPT !.m_orientation = 1])
     ELSE IF int_value = 90 \/ int_value = -270
       THEN Ret(0, [c EXCEPT !.m_orientation = 6])
     ELSE IF int_value = 180 \/ int_value = -180
       THEN Ret(0, [c EXCEPT !.m_orientation = 3])
     ELSE IF int_value = 270 \/ int_value = -90
       THEN Ret(0, [c EXCEPT !.m_orientation = 8])
     ELSE Ret(-2, c)

\* the boolean keys: parse_bool is handed the address of the member itself
config_set_bool(c, member, value) ==
  LET p  == parse_bool(value, c[member])
      c1 == [c EXCEPT ![member] = p.out]
  IN IF p.ok # TRUE THEN Ret(-2, c1) ELSE Ret(0, c1)

config_set_training_shots(c, value) ==
  LET p == parse_int(value, 0)
      int_value == p.out
  IN IF p.ok # TRUE THEN Ret(-2, c)
     ELSE IF int_value < 0 THEN Ret(-2, c)
     ELSE Ret(0, [c EXCEPT !.m_training_shots = int_value])

config_set_framesize(c, value) ==
  LET Is(name, alias) == strcasecmp(value, name) = 0 \/ strcasecmp(value, alias) = 0
      Set(fs) == Ret(0, [c EXCEPT !.m_frame_size = fs])
  IN IF Is(<<"Q", "Q", "V", "G", "A">>, <<"1", "6", "0", "x", "1", "2", "0">>) THEN Set(FRAMESIZE_QQVGA)
     ELSE IF Is(<<"Q", "C", "I", "F">>, <<"1", "7", "6", "x", "1", "4", "4">>) THEN Set(FRAMESIZE_QCIF)
     ELSE IF Is(<<"H", "Q", "V", "G", "A">>, <<"2", "4", "0", "x", "1", "7", "6">>) THEN Set(FRAMESIZE_HQVGA)
     ELSE IF Is(<<"Q", "V", "G", "A">>, <<"3", "2", "0", "x", "2", "4", "0">>) THEN Set(FRAMESIZE_QVGA)
     ELSE IF Is(<<"C", "I", "F">>, <<"4", "0", "0", "x", "2", "9", "6">>) THEN Set(FRAMESIZE_CIF)
     ELSE IF Is(<<"V", "G", "A">>, <<"6", "4", "0", "x", "4", "8", "0">>) THEN Set(FRAMESIZE_VGA)
     ELSE IF Is(<<"S", "V", "G", "A">>, <<"8", "0", "0", "x", "6", "0", "0">>) THEN Set(FRAMESIZE_SVGA)
     ELSE IF Is(<<"X", "G", "A">>, <<"1", "0", "2", "4", "x", "7", "6", "8">>) THEN Set(FRAMESIZE_XGA)
     ELSE IF Is(<<"S", "X", "G", "A">>, <<"1", "2", "8", "0", "x", "1", "0", "2", "4">>) THEN Set(FRAMESIZE_SXGA)
     ELSE IF Is(<<"U", "X", "G", "A">>, <<"1", "6", "0", "0", "x", "1", "2", "0", "0">>) THEN Set(FRAMESIZE_UXGA)
     ELSE IF Is(<<"Q", "X", "G", "A">>, <<"2", "0", "4", "8", "x", "1", "5", "3", "6">>) THEN Set(FRAMESIZE_QXGA)
     ELSE Ret(-2, c)

\* the quality branch with its upper limit off by one
config_set_quality_off_by_one(c, value) ==
  LET p == parse_int(value, 0)
      int_value == p.out
  IN IF p.ok # TRUE THEN Ret(-2, c)
     ELSE IF int_value < 10 \/ int_value > 64 THEN Ret(-2, c)
     ELSE Ret(0, [c EXCEPT !.m_quality = int_value])

config_set_quality(c, value) ==
  LET p == parse_int(value, 0)
      int_value == p.out
  IN IF p.ok # TRUE THEN Ret(-2, c)
     ELSE IF int_value < 10 \/ int_value > 63 THEN Ret(-2, c)
     ELSE Ret(0, [c EXCEPT !.m_quality = int_value])

config_set_contrast(c, value) ==
  LET p == parse_int(value, 0)
      int_value == p.out
  IN IF p.ok # TRUE THEN Ret(-2, c)
     ELSE IF int_value < -2 \/ int_value > 2 THEN Ret(-2, c)
     ELSE Ret(0, [c EXCEPT !.m_contrast = int_value])

config_set_brightness(c, value) ==
  LET p == parse_int(value, 0)
      int_value == p.out
  IN IF p.ok # TRUE THEN Ret(-2, c)
     ELSE IF int_value < -2 \/ int_value > 2 THEN Ret(-2, c)
     ELSE Ret(0, [c EXCEPT !.m_brightness = int_value])

config_set_saturation(c, value) ==
  LET p == parse_int(value, 0)
      int_value == p.out
  IN IF p.ok # TRUE THEN Ret(-2, c)
     ELSE IF int_value < -2 \/ int_value > 2 THEN Ret(-2, c)
     ELSE Ret(0, [c EXCEPT !.m_saturation = int_value])

config_set_wb_mode(c, value) ==
  IF strcasecmp(value, <<"a", "u", "t", "o">>) = 0 THEN Ret(0, [c EXCEPT !.m_wb_mode = WbModeAuto])
  ELSE IF strcasecmp(value, <<"s", "u", "n", "n", "y">>) = 0 THEN Ret(0, [c EXCEPT !.m_wb_mode = WbModeSunny])
  ELSE IF strcasecmp(value, <<"c", "l", "o", "u", "d", "y">>) = 0 THEN Ret(0, [c EXCEPT !.m_wb_mode = WbModeCloudy])
  ELSE IF strcasecmp(value, <<"o", "f", "f", "i", "c", "e">>) = 0 THEN Ret(0, [c EXCEPT !.m_wb_mode = WbModeOffice])
  ELSE IF strcasecmp(value, <<"h", "o", "m", "e">>) = 0 THEN Ret(0, [c EXCEPT !.m_wb_mode = WbModeHome])
  ELSE Ret(-2, c)

\* the agc_gain branch taking the value as zero-based
config_set_agc_gain_zero_based(c, value) ==
  LET p == parse_int(value, 0)
      int_value == p.out
  IN IF p.ok # TRUE THEN Ret(-2, c)
     ELSE IF int_value < 0 \/ int_value > 31 THEN Ret(-2, c)
     ELSE Ret(0, [c EXCEPT !.m_agc_gain = int_value])

config_set_agc_gain(c, value) ==
  LET p == parse_int(value, 0)
      int_value == p.out
  IN IF p.ok # TRUE THEN Ret(-2, c)
     ELSE IF int_value < 1 \/ int_value > 32 THEN Ret(-2, c)
     ELSE Ret(0, [c EXCEPT !.m_agc_gain = int_value - 1])

config_set_gainceiling(c, value) ==
  LET p == parse_int(value, 0)
      int_value == p.out
  IN IF p.ok # TRUE THEN Ret(-2, c)
     ELSE IF int_value < 0 \/ int_value > 6 THEN Ret(-2, c)
     ELSE Ret(0, [c EXCEPT !.m_gainceiling = int_value])

config_set_aec_value(c, value) ==
  LET p == parse_int(value, 0)
      int_value == p.out
  IN IF p.ok # TRUE THEN Ret(-2, c)
     ELSE IF int_value < 0 \/ int_value > 1200 THEN Ret(-2, c)
     ELSE Ret(0, [c EXCEPT !.m_aec_value = int_value])

config_set_ae_level(c, value) ==
  LET p == parse_int(value, 0)
      int_value == p.out
  IN IF p.ok # TRUE THEN Ret(-2, c)
     ELSE IF int_value < -2 \/ int_value > 2 THEN Ret(-2, c)
     ELSE Ret(0, [c EXCEPT !.m_ae_level = int_value])

config_set_special_effect(c, value) ==
  LET Set(e) == Ret(0, [c EXCEPT !.m_special_effect = e])
  IN IF strcasecmp(value, <<"n", "o", "n", "e">>) = 0 THEN Set(SpecialEffectNone)
     ELSE IF strcasecmp(value, <<"n", "e", "g", "a", "t", "i", "v", "e">>) = 0 THEN Set(SpecialEffectNegative)
     ELSE IF strcasecmp(value, <<"g", "r", "a", "y", "s", "c", "a", "l", "e">>) = 0 THEN Set(SpecialEffectGrayscale)
     ELSE IF strcasecmp(value, <<"r", "e", "d", " ", "t", "i", "n", "t">>) = 0 THEN Set(SpecialEffectRedTint)
     ELSE IF strcasecmp(value, <<"g", "r", "e", "e", "n", " ", "t", "i", "n", "t">>) = 0 THEN Set(SpecialEffectGreenTint)
     ELSE IF strcasecmp(value, <<"b", "l", "u", "e", " ", "t", "i", "n", "t">>) = 0 THEN Set(SpecialEffectBlueTint)
     ELSE IF strcasecmp(value, <<"s", "e", "p", "i", "a">>) = 0 THEN Set(SpecialEffectSepia)
     ELSE Ret(-2, c)

\* the final else branch treating an unknown key as an error
config_set_unknown_failing(c, key) == Ret(-2, c)

config_set_unknown(c, key) == Ret(0, c)

config_set(c, key, value) ==
  LET Key(k) == strcasecmp(key, k) = 0
  IN IF Key(<<"i", "n", "t", "e", "r", "v", "a", "l">>) THEN config_set_interval(c, value)
     ELSE IF Key(<<"s", "s", "i", "d">>) \/ Key(<<"p", "a", "s", "s", "w", "o", "r", "d">>) \/ Key(<<"n", "t", "p", "_", "s", "e", "r", "v", "e", "r">>)
       THEN config_set_deprecated(c, key)
     ELSE IF Key(<<"t", "i", "m", "e", "z", "o", "n", "e">>) THEN config_set_timezone(c, value)
     ELSE IF Key(<<"r", "o", "t", "a", "t", "i", "o", "n">>) THEN config_set_rotation(c, value)
     ELSE IF Key(<<"e", "n", "a", "b", "l", "e", "_", "b", "u", "s", "y", "_", "l", "e", "d">>) THEN config_set_bool(c, "m_enable_busy_led", value)
     ELSE IF Key(<<"e", "n", "a", "b", "l", "e", "_", "f", "l", "a", "s", "h">>) THEN config_set_bool(c, "m_enable_flash", value)
     ELSE IF Key(<<"t", "r", "a", "i", "n", "i", "n", "g", "_", "s", "h", "o", "t", "s">>) THEN config_set_training_shots(c, value)
     ELSE IF Key(<<"f", "r", "a", "m", "e", "s", "i", "z", "e">>) THEN config_set_framesize(c, value)
     ELSE IF Key(<<"q", "u", "a", "l", "i", "t", "y">>) THEN config_set_quality(c, value)
     ELSE IF Key(<<"c", "o", "n", "t", "r", "a", "s", "t">>) THEN config_set_contrast(c, value)
     ELSE IF Key(<<"b", "r", "i", "g", "h", "t", "n", "e", "s", "s">>) THEN config_set_brightness(c, value)
     ELSE IF Key(<<"s", "a", "t", "u", "r", "a", "t", "i", "o", "n">>) THEN config_set_saturation(c, value)
     ELSE IF Key(<<"c", "o", "l", "o", "r", "b", "a", "r">>) THEN config_set_bool(c, "m_colorbar", value)
     ELSE IF Key(<<"h", "m", "i", "r", "r", "o", "r">>) THEN config_set_bool(c, "m_hmirror", value)
     ELSE IF Key(<<"v", "f", "l", "i", "p">>) THEN config_set_bool(c, "m_vflip", value)
     ELSE IF Key(<<"a", "w", "b">>) THEN config_set_bool(c, "m_awb", value)
     ELSE IF Key(<<"a", "w", "b", "_", "g", "a", "i", "n">>) THEN config_set_bool(c, "m_awb_gain", value)
     ELSE IF Key(<<"w", "b", "_", "m", "o", "d", "e">>) THEN config_set_wb_mode(c, value)
     ELSE IF Key(<<"a", "g", "c">>) THEN config_set_bool(c, "m_agc", value)
     ELSE IF Key(<<"a", "g", "c", "_", "g", "a", "i", "n">>) THEN config_set_agc_gain(c, value)
     ELSE IF Key(<<"g", "a", "i", "n", "c", "e", "i", "l", "i", "n", "g">>) THEN config_set_gainceiling(c, value)
     ELSE IF Key(<<"a", "e", "c">>) THEN config_set_bool(c, "m_aec", value)
     ELSE IF Key(<<"a", "e", "c", "_", "v", "a", "l", "u", "e">>) THEN config_set_aec_value(c, value)
     ELSE IF Key(<<"a", "e", "c", "2">>) THEN config_set_bool(c, "m_aec2", value)
     ELSE IF Key(<<"a", "e", "_", "l", "e", "v", "e", "l">>) THEN config_set_ae_level(c, value)
     ELSE IF Key(<<"d", "c", "w">>) THEN config_set_bool(c, "m_dcw", value)
     ELSE IF Key(<<"b", "p", "c">>) THEN config_set_bool(c, "m_bpc", value)
     ELSE IF Key(<<"w", "p", "c">>) THEN config_set_bool(c, "m_wpc", value)
     ELSE IF Key(<<"r", "a", "w", "_", "g", "m", "a">>) THEN config_set_bool(c, "m_raw_gma", value)
     ELSE IF Key(<<"l", "e", "n", "c">>) THEN config_set_bool(c, "m_lenc", value)
     ELSE IF Key(<<"s", "p", "e", "c", "i", "a", "l", "_", "e", "f", "f", "e", "c", "t">>) THEN config_set_special_effect(c, value)
     ELSE config_set_unknown(c, key)

(***************************************************************************)
(* Rendering: configAsJSON and the lines saveConfig writes.                *)
(***************************************************************************)
\* one member of the JSON object: "key": text, the text in quotes or bare
JsonMember(k, t, q) == [key |-> k, text |-> t, quoted |-> q]

\* one line of the configuration file
Line(k, v)  == [kind |-> "kv", key |-> k, value |-> v]
Comment(t)  == [kind |-> "comment", key |-> <<>>, value |-> t]

\* configAsJSON with rotation and framesize emitted in the other order
configAsJSON_reordered(c) == <<
    JsonMember(<<"i", "n", "t", "e", "r", "v", "a", "l">>, StringU32(c.m_capture_interval), FALSE),
    JsonMember(<<"e", "n", "a", "b", "l", "e", "_", "b", "u", "s", "y", "_", "l", "e", "d">>, StringBool(c.m_enable_busy_led), FALSE),
    JsonMember(<<"e", "n", "a", "b", "l", "e", "_", "f", "l", "a", "s", "h">>, StringBool(c.m_enable_flash), FALSE),
    JsonMember(<<"t", "r", "a", "i", "n", "i", "n", "g", "_", "s", "h", "o", "t", "s">>, StringInt(c.m_training_shots), FALSE),
    JsonMember(<<"t", "i", "m", "e", "z", "o", "n", "e">>, c.m_tzinfo, TRUE),
    JsonMember(<<"f", "r", "a", "m", "e", "s", "i", "z", "e">>, At(frame_size_strings, c.m_frame_size), TRUE),
    JsonMember(<<"r", "o", "t", "a", "t", "i", "o", "n">>, StringInt(orientation_to_rotation(c.m_orientation)), FALSE),
    JsonMember(<<"q", "u", "a", "l", "i", "t", "y">>, StringInt(c.m_quality), FALSE),
    JsonMember(<<"c", "o", "n", "t", "r", "a", "s", "t">>, StringInt(c.m_contrast), FALSE),
    JsonMember(<<"b", "r", "i", "g", "h", "t", "n", "e", "s", "s">>, StringInt(c.m_brightness), FALSE),
    JsonMember(<<"s", "a", "t", "u", "r", "a", "t", "i", "o", "n">>, StringInt(c.m_saturation), FALSE),
    JsonMember(<<"c", "o", "l", "o", "r", "b", "a", "r">>, StringBool(c.m_colorbar), FALSE),
    JsonMember(<<"h", "m", "i", "r", "r", "o", "r">>, StringBool(c.m_hmirror), FALSE),
    JsonMember(<<"v", "f", "l", "i", "p">>, StringBool(c.m_vflip), FALSE),
    JsonMember(<<"a", "w", "b">>, StringBool(c.m_awb), FALSE),
    JsonMember(<<"a", "w", "b", "_", "g", "a", "i", "n">>, StringBool(c.m_awb_gain), FALSE),
    JsonMember(<<"w", "b", "_", "m", "o", "d", "e">>, At(wb_mode_strings, c.m_wb_mode), TRUE),
    JsonMember(<<"a", "g", "c">>, StringBool(c.m_agc), FALSE),
    JsonMember(<<"a", "g", "c", "_", "g", "a", "i", "n">>, StringInt(c.m_agc_gain + 1), FALSE),
    JsonMember(<<"g", "a", "i", "n", "c", "e", "i", "l", "i", "n", "g">>, StringInt(c.m_gainceiling), FALSE),
    JsonMember(<<"a", "e", "c">>, StringBool(c.m_aec), FALSE),
    JsonMember(<<"a", "e", "c", "_", "v", "a", "l", "u", "e">>, StringInt(c.m_aec_value), FALSE),
    JsonMember(<<"a", "e", "c", "2">>, StringBool(c.m_aec2), FALSE),
    JsonMember(<<"a", "e", "_", "l", "e", "v", "e", "l">>, StringInt(c.m_ae_level), FALSE),
    JsonMember(<<"d", "c", "w">>, StringBool(c.m_dcw), FALSE),
    JsonMember(<<"b", "p", "c">>, StringBool(c.m_bpc), FALSE),
    JsonMember(<<"w", "p", "c">>, StringBool(c.m_wpc), FALSE),
    JsonMember(<<"r", "a", "w", "_", "g", "m", "a">>, StringBool(c.m_raw_gma), FALSE),
    JsonMember(<<"l", "e", "n", "c">>, StringBool(c.m_lenc), FALSE),
    JsonMember(<<"s", "p", "e", "c", "i", "a", "l", "_", "e", "f", "f", "e", "c", "t">>, At(special_effect_strings, c.m_special_effect), TRUE) >>

configAsJSON(c) == <<
    JsonMember(<<"i", "n", "t", "e", "r", "v", "a", "l">>, StringU32(c.m_capture_interval), FALSE),
    JsonMember(<<"e", "n", "a", "b", "l", "e", "_", "b", "u", "s", "y", "_", "l", "e", "d">>, StringBool(c.m_enable_busy_led), FALSE),
    JsonMember(<<"e", "n", "a", "b", "l", "e", "_", "f", "l", "a", "s", "h">>, StringBool(c.m_enable_flash), FALSE),
    JsonMember(<<"t", "r", "a", "i", "n", "i", "n", "g", "_", "s", "h", "o", "t", "s">>, StringInt(c.m_training_shots), FALSE),
    JsonMember(<<"t", "i", "m", "e", "z", "o", "n", "e">>, c.m_tzinfo, TRUE),
    JsonMember(<<"r", "o", "t", "a", "t", "i", "o", "n">>, StringInt(orientation_to_rotation(c.m_orientation)), FALSE),
    JsonMember(<<"f", "r", "a", "m", "e", "s", "i", "z", "e">>, At(frame_size_strings, c.m_frame_size), TRUE),
    JsonMember(<<"q", "u", "a", "l", "i", "t", "y">>, StringInt(c.m_quality), FALSE),
    JsonMember(<<"c", "o", "n", "t", "r", "a", "s", "t">>, StringInt(c.m_contrast), FALSE),
    JsonMember(<<"b", "r", "i", "g", "h", "t", "n", "e", "s", "s">>, StringInt(c.m_brightness), FALSE),
    JsonMember(<<"s", "a", "t", "u", "r", "a", "t", "i", "o", "n">>, StringInt(c.m_saturation), FALSE),
    JsonMember(<<"c", "o", "l", "o", "r", "b", "a", "r">>, StringBool(c.m_colorbar), FALSE),
    JsonMember(<<"h", "m", "i", "r", "r", "o", "r">>, StringBool(c.m_hmirror), FALSE),
    JsonMember(<<"v", "f", "l", "i", "p">>, StringBool(c.m_vflip), FALSE),
    JsonMember(<<"a", "w", "b">>, StringBool(c.m_awb), FALSE),
    JsonMember(<<"a", "w", "b", "_", "g", "a", "i", "n">>, StringBool(c.m_awb_gain), FALSE),
    JsonMember(<<"w", "b", "_", "m", "o", "d", "e">>, At(wb_mode_strings, c.m_wb_mode), TRUE),
    JsonMember(<<"a", "g", "c">>, StringBool(c.m_agc), FALSE),
    JsonMember(<<"a", "g", "c", "_", "g", "a", "i", "n">>, StringInt(c.m_agc_gain + 1), FALSE),
    JsonMember(<<"g", "a", "i", "n", "c", "e", "i", "l", "i", "n", "g">>, StringInt(c.m_gainceiling), FALSE),
    JsonMember(<<"a", "e", "c">>, StringBool(c.m_aec), FALSE),
    JsonMember(<<"a", "e", "c", "_", "v", "a", "l", "u", "e">>, StringInt(c.m_aec_value), FALSE),
    JsonMember(<<"a", "e", "c", "2">>, StringBool(c.m_aec2), FALSE),
    JsonMember(<<"a", "e", "_", "l", "e", "v", "e", "l">>, StringInt(c.m_ae_level), FALSE),
    JsonMember(<<"d", "c", "w">>, StringBool(c.m_dcw), FALSE),
    JsonMember(<<"b", "p", "c">>, StringBool(c.m_bpc), FALSE),
    JsonMember(<<"w", "p", "c">>, StringBool(c.m_wpc), FALSE),
    JsonMember(<<"r", "a", "w", "_", "g", "m", "a">>, StringBool(c.m_raw_gma), FALSE),
    JsonMember(<<"l", "e", "n", "c">>, StringBool(c.m_lenc), FALSE),
    JsonMember(<<"s", "p", "e", "c", "i", "a", "l", "_", "e", "f", "f", "e", "c", "t">>, At(special_effect_strings, c.m_special_effect), TRUE) >>

\* the text saveConfig puts into the file once it is open
saveConfig_lines(c) == <<
    Comment(<<"#", " ", "E", "S", "P", "3", "2", "-", "C", "A", "M", " ", "i", "n", "t", "e", "r", "v", "a", "l", " ", "-", " ", "C", "o", "n", "f", "i", "g", "u", "r", "a", "t", "i", "o", "n", " ", "f", "i", "l", "e">>),
    Comment(<<"#", " ", "C", "o", "n", "f", "i", "g", "u", "r", "a", "t", "i", "o", "n", " ", "G", "e", "n", "e", "r", "a", "t", "e", "d", " ", "f", "r", "o", "m", " ", "S", "e", "t", "-", "u", "p", " ", "m", "o", "d", "e">>),
    Line(<<"i", "n", "t", "e", "r", "v", "a", "l">>, StringU32(c.m_capture_interval)),
    Line(<<"e", "n", "a", "b", "l", "e", "_", "b", "u", "s", "y", "_", "l", "e", "d">>, StringBool(c.m_enable_busy_led)),
    Line(<<"e", "n", "a", "b", "l", "e", "_", "f", "l", "a", "s", "h">>, StringBool(c.m_enable_flash)),
    Line(<<"t", "r", "a", "i", "n", "i", "n", "g", "_", "s", "h", "o", "t", "s">>, StringInt(c.m_training_shots)),
    Line(<<"t", "i", "m", "e", "z", "o", "n", "e">>, c.m_tzinfo),
    Line(<<"r", "o", "t", "a", "t", "i", "o", "n">>, StringInt(orientation_to_rotation(c.m_orientation))),
    Line(<<"f", "r", "a", "m", "e", "s", "i", "z", "e">>, At(frame_size_strings, c.m_frame_size)),
    Line(<<"q", "u", "a", "l", "i", "t", "y">>, StringInt(c.m_quality)),
    Line(<<"c", "o", "n", "t", "r", "a", "s", "t">>, StringInt(c.m_contrast)),
    Line(<<"b", "r", "i", "g", "h", "t", "n", "e", "s", "s">>, StringInt(c.m_brightness)),
    Line(<<"s", "a", "t", "u", "r", "a", "t", "i", "o", "n">>, StringInt(c.m_saturation)),
    Line(<<"c", "o", "l", "o", "r", "b", "a", "r">>, StringBool(c.m_colorbar)),
    Line(<<"h", "m", "i", "r", "r", "o", "r">>, StringBool(c.m_hmirror)),
    Line(<<"v", "f", "l", "i", "p">>, StringBool(c.m_vflip)),
    Line(<<"a", "w", "b">>, StringBool(c.m_awb)),
    Line(<<"a", "w", "b", "_", "g", "a", "i", "n">>, StringBool(c.m_awb_gain)),
    Line(<<"w", "b", "_", "m", "o", "d", "e">>, At(wb_mode_strings, c.m_wb_mode)),
    Line(<<"a", "g", "c">>, StringBool(c.m_agc)),
    Line(<<"a", "g", "c", "_", "g", "a", "i", "n">>, StringInt(c.m_agc_gain + 1)),
    Line(<<"g", "a", "i", "n", "c", "e", "i", "l", "i", "n", "g">>, StringInt(c.m_gainceiling)),
    Line(<<"a", "e", "c">>, StringBool(c.m_aec)),
    Line(<<"a", "e", "c", "_", "v", "a", "l", "u", "e">>, StringInt(c.m_aec_value)),
    Line(<<"a", "e", "c", "2">>, StringBool(c.m_aec2)),
    Line(<<"a", "e", "_", "l", "e", "v", "e", "l">>, StringInt(c.m_ae_level)),
    Line(<<"d", "c", "w">>, StringBool(c.m_dcw)),
    Line(<<"b", "p", "c">>, StringBool(c.m_bpc)),
    Line(<<"w", "p", "c">>, StringBool(c.m_wpc)),
    Line(<<"r", "a", "w", "_", "g", "m", "a">>, StringBool(c.m_raw_gma)),
    Line(<<"l", "e", "n", "c">>, StringBool(c.m_lenc)),
    Line(<<"s", "p", "e", "c", "i", "a", "l", "_", "e", "f", "f", "e", "c", "t">>, At(special_effect_strings, c.m_special_effect)) >>

(***************************************************************************)
(* stdio streams.  held is the set of FILE streams the program holds open; *)
(* a stream is named by a positive number, NULL is no stream.              *)
(***************************************************************************)
\* fopen: when it succeeds it yields a stream that was not open before
fopen(held, succeeds) ==
  IF succeeds
    THEN [file |-> CHOOSE fp \in 1..(Cardinality(held) + 1) : fp \notin held,
          held |-> held \cup {CHOOSE fp \in 1..(Cardinality(held) + 1) : fp \notin held}]
    ELSE [file |-> NULL, held |-> held]

\* fclose(fp): the streams held afterwards
fclose(held, fp) == held \ {fp}

\* saveConfig once fopen(CONFIG_PATH, "w") returned o; the result tells what
\* the call returned, the file it left, the streams still held, and whether
\* it opened and closed a stream
saveConfig_opened(c, f, o) ==
  IF o.file # NULL
    THEN [ret |-> TRUE, file |-> [exists |-> TRUE, lines |-> saveConfig_lines(c)],
          held |-> fclose(o.held, o.file), opened |-> TRUE, closed |-> TRUE]
    ELSE [ret |-> FALSE, file |-> f,
          held |-> o.held, opened |-> FALSE, closed |-> FALSE]

\* saveConfig: opened tells whether fopen(CONFIG_PATH, "w") succeeds
saveConfig(c, f, opened, held) == saveConfig_opened(c, f, fopen(held, opened))

(***************************************************************************)
(* Loading.                                                                *)
(***************************************************************************)
\* the callback loadConfig hands to parse_kv_file: it acts on the global cfg
config_set_wrapper(c, key, value) == config_set(c, key, value)

\* parse_kv_file(file, &config_set_wrapper): hands each key/value line to
\* the callback, in order, skipping comments, and stops with a non-zero error
\* at the first line the callback refuses.  parse_kv_file reads from line i
\* on; parse_kv_next goes on after the callback returned r for line i.
RECURSIVE parse_kv_file(_, _, _)
parse_kv_next(lines, i, r) ==
  IF r.ret # 0 THEN [err |-> r.ret, cfg |-> r.cfg]
               ELSE parse_kv_file(lines, i + 1, r.cfg)

parse_kv_file(lines, i, c) ==
  IF i > Len(lines) THEN [err |-> 0, cfg |-> c]
  ELSE IF lines[i].kind = "comment" THEN parse_kv_file(lines, i + 1, c)
  ELSE parse_kv_next(lines, i, config_set_wrapper(c, lines[i].key, lines[i].value))

\* loadConfig returning on a parse error before it closes the file
loadConfig_return_before_close(r, fp, held) ==
  IF r.err # 0 THEN [ret |-> FALSE, cfg |-> r.cfg,
                     held |-> held, opened |-> TRUE, closed |-> FALSE]
               ELSE [ret |-> TRUE, cfg |-> r.cfg,
                     held |-> fclose(held, fp), opened |-> TRUE, closed |-> TRUE]

\* loadConfig after parse_kv_file returned r: fclose(file), then the test
\* of err
loadConfig_return(r, fp, held) ==
  IF r.err # 0 THEN [ret |-> FALSE, cfg |-> r.cfg,
                     held |-> fclose(held, fp), opened |-> TRUE, closed |-> TRUE]
               ELSE [ret |-> TRUE, cfg |-> r.cfg,
                     held |-> fclose(held, fp), opened |-> TRUE, closed |-> TRUE]

\* loadConfig once fopen(CONFIG_PATH, "r") returned o
loadConfig_opened(c, f, o) ==
  IF o.file # NULL
    THEN loadConfig_return(parse_kv_file(f.lines, 1, c), o.file, o.held)
    ELSE [ret |-> TRUE, cfg |-> c,
          held |-> o.held, opened |-> FALSE, closed |-> FALSE]

\* loadConfig reporting an absent file as a failure
loadConfig_missing_is_error(c, f, held) ==
  IF f.exists THEN loadConfig_opened(c, f, fopen(held, TRUE))
              ELSE [ret |-> FALSE, cfg |-> c,
                    held |-> held, opened |-> FALSE, closed |-> FALSE]

\* loadConfig: fopen(CONFIG_PATH, "r") yields NULL when the file is absent
loadConfig(c, f, held) == loadConfig_opened(c, f, fopen(held, f.exists))

(***************************************************************************)
(* The state.                                                              *)
(*   cfg    the Configuration object (the global cfg)                      *)
(*   file   the configuration file at CONFIG_PATH                          *)
(*   last   the last operation: its arguments, its result and the object   *)
(*          before it (history, read by the properties only)               *)
(*   sets   the number of direct config_set calls made so far              *)
(*   saved  the object as it was at the last successful saveConfig         *)
(*   streams  the FILE streams held open, and whether the last operation   *)
(*          opened one and closed one                                      *)
(***************************************************************************)
\* The constructor's defaults: two objects with every member in its domain.
DefaultConfigurations == {
  [ m_capture_interval |-> U32FromInt(5000), m_tzinfo |-> <<>>,
    m_orientation |-> 1, m_enable_busy_led |-> TRUE, m_enable_flash |-> FALSE,
    m_training_shots |-> 3, m_frame_size |-> FRAMESIZE_UXGA, m_quality |-> 10,
    m_contrast |-> 0, m_brightness |-> 0, m_saturation |-> 0,
    m_colorbar |-> FALSE, m_hmirror |-> FALSE, m_vflip |-> FALSE,
    m_awb |-> TRUE, m_awb_gain |-> TRUE, m_wb_mode |-> WbModeAuto,
    m_agc |-> TRUE, m_agc_gain |-> 0, m_gainceiling |-> 0,
    m_aec |-> TRUE, m_aec_value |-> 204, m_aec2 |-> FALSE, m_ae_level |-> 0,
    m_dcw |-> TRUE, m_bpc |-> FALSE, m_wpc |-> TRUE, m_raw_gma |-> TRUE,
    m_lenc |-> TRUE, m_special_effect |-> SpecialEffectNone ],
  [ m_capture_interval |-> U32(1, 4464), m_tzinfo |-> <<"U", "T">>,
    m_orientation |-> 8, m_enable_busy_led |-> FALSE, m_enable_flash |-> TRUE,
    m_training_shots |-> 0, m_frame_size |-> FRAMESIZE_QXGA, m_quality |-> 63,
    m_contrast |-> -2, m_brightness |-> 2, m_saturation |-> -1,
    m_colorbar |-> TRUE, m_hmirror |-> TRUE, m_vflip |-> TRUE,
    m_awb |-> FALSE, m_awb_gain |-> FALSE, m_wb_mode |-> WbModeHome,
    m_agc |-> FALSE, m_agc_gain |-> 31, m_gainceiling |-> 6,
    m_aec |-> FALSE, m_aec_value |-> 1200, m_aec2 |-> TRUE, m_ae_level |-> -2,
    m_dcw |-> FALSE, m_bpc |-> TRUE, m_wpc |-> FALSE, m_raw_gma |-> FALSE,
    m_lenc |-> FALSE, m_special_effect |-> SpecialEffectSepia ] }

\* Configuration files found at start-up: none, a hand-edited file that
\* loads, and one whose second pair is refused.
AbsentFile == [exists |-> FALSE, lines |-> <<>>]

InitialFiles == {
  AbsentFile,
  [exists |-> TRUE, lines |-> <<
     Comment(<<"#", " ", "c", "a", "m", "e", "r", "a">>),
     Line(<<"Q", "u", "a", "l", "i", "t", "y">>, <<"1", "2">>),
     Line(<<"f", "o", "o">>, <<"b", "a", "r">>),
     Line(<<"s", "s", "i", "d">>, <<"h", "o", "m", "e">>),
     Line(<<"r", "o", "t", "a", "t", "i", "o", "n">>, <<"-", "9", "0">>),
     Line(<<"v", "f", "l", "i", "p">>, <<"y", "e", "s">>) >>],
  [exists |-> TRUE, lines |-> <<
     Line(<<"c", "o", "n", "t", "r", "a", "s", "t">>, <<"1">>),
     Line(<<"q", "u", "a", "l", "i", "t", "y">>, <<"9">>),
     Line(<<"h", "m", "i", "r", "r", "o", "r">>, <<"1">>),
     Line(<<"b", "r", "i", "g", "h", "t", "n", "e", "s", "s">>, <<"-", "1">>) >>] }

\* Keys and value texts handed to config_set.
SettableKeys == {
    <<"i", "n", "t", "e", "r", "v", "a", "l">>,
    <<"e", "n", "a", "b", "l", "e", "_", "b", "u", "s", "y", "_", "l", "e", "d">>,
    <<"e", "n", "a", "b", "l", "e", "_", "f", "l", "a", "s", "h">>,
    <<"t", "r", "a", "i", "n", "i", "n", "g", "_", "s", "h", "o", "t", "s">>,
    <<"t", "i", "m", "e", "z", "o", "n", "e">>,
    <<"r", "o", "t", "a", "t", "i", "o", "n">>,
    <<"f", "r", "a", "m", "e", "s", "i", "z", "e">>,
    <<"q", "u", "a", "l", "i", "t", "y">>,
    <<"c", "o", "n", "t", "r", "a", "s", "t">>,
    <<"b", "r", "i", "g", "h", "t", "n", "e", "s", "s">>,
    <<"s", "a", "t", "u", "r", "a", "t", "i", "o", "n">>,
    <<"c", "o", "l", "o", "r", "b", "a", "r">>,
    <<"h", "m", "i", "r", "r", "o", "r">>,
    <<"v", "f", "l", "i", "p">>,
    <<"a", "w", "b">>,
    <<"a", "w", "b", "_", "g", "a", "i", "n">>,
    <<"w", "b", "_", "m", "o", "d", "e">>,
    <<"a", "g", "c">>,
    <<"a", "g", "c", "_", "g", "a", "i", "n">>,
    <<"g", "a", "i", "n", "c", "e", "i", "l", "i", "n", "g">>,
    <<"a", "e", "c">>,
    <<"a", "e", "c", "_", "v", "a", "l", "u", "e">>,
    <<"a", "e", "c", "2">>,
    <<"a", "e", "_", "l", "e", "v", "e", "l">>,
    <<"d", "c", "w">>,
    <<"b", "p", "c">>,
    <<"w", "p", "c">>,
    <<"r", "a", "w", "_", "g", "m", "a">>,
    <<"l", "e", "n", "c">>,
    <<"s", "p", "e", "c", "i", "a", "l", "_", "e", "f", "f", "e", "c", "t">> }

Keys == SettableKeys \cup {
    <<"s", "s", "i", "d">>, <<"p", "a", "s", "s", "w", "o", "r", "d">>, <<"n", "t", "p", "_", "s", "e", "r", "v", "e", "r">>, <<"f", "o", "o">>, <<"Q", "U", "A", "L", "I", "T", "Y">>, <<"I", "n", "t", "e", "r", "v", "a", "l">> }

\* value texts tried with every key: malformed, trailing garbage, too large
CommonValues == { <<"a", "b", "c">>, <<>>, <<"1", "2", "a", "b", "c">>, <<"1">>, <<"-", "1">>, <<"9", "9", "9", "9", "9", "9", "9", "9", "9", "9", "9">> }

BoolKeys == { <<"e", "n", "a", "b", "l", "e", "_", "b", "u", "s", "y", "_", "l", "e", "d">>, <<"e", "n", "a", "b", "l", "e", "_", "f", "l", "a", "s", "h">>, <<"c", "o", "l", "o", "r", "b", "a", "r">>, <<"h", "m", "i", "r", "r", "o", "r">>, <<"v", "f", "l", "i", "p">>, <<"a", "w", "b">>, <<"a", "w", "b", "_", "g", "a", "i", "n">>, <<"a", "g", "c">>, <<"a", "e", "c">>, <<"a", "e", "c", "2">>, <<"d", "c", "w">>, <<"b", "p", "c">>, <<"w", "p", "c">>, <<"r", "a", "w", "_", "g", "m", "a">>, <<"l", "e", "n", "c">> }

LevelKeys == { <<"c", "o", "n", "t", "r", "a", "s", "t">>, <<"b", "r", "i", "g", "h", "t", "n", "e", "s", "s">>, <<"s", "a", "t", "u", "r", "a", "t", "i", "o", "n">>, <<"a", "e", "_", "l", "e", "v", "e", "l">> }

\* the calls config_set(key, value) of the model: every key with the common
\* texts, and each key with the texts around the edges of its own domain
Inputs ==
  (Keys \X CommonValues)
  \cup (BoolKeys \X { <<"t", "r", "u", "e">>, <<"Y", "E", "S">>, <<"N", "o">>, <<"f", "a", "l", "s", "e">>, <<"0">>, <<"m", "a", "y", "b", "e">> })
  \cup (LevelKeys \X { <<"-", "3">>, <<"-", "2">>, <<"0">>, <<"2">>, <<"3">> })
  \cup ({ <<"q", "u", "a", "l", "i", "t", "y">>, <<"Q", "U", "A", "L", "I", "T", "Y">> } \X { <<"9">>, <<"1", "0">>, <<"6", "3">>, <<"6", "4">> })
  \cup ({ <<"a", "g", "c", "_", "g", "a", "i", "n">> } \X { <<"0">>, <<"3", "2">>, <<"3", "3">> })
  \cup ({ <<"g", "a", "i", "n", "c", "e", "i", "l", "i", "n", "g">> } \X { <<"0">>, <<"6">>, <<"7">> })
  \cup ({ <<"a", "e", "c", "_", "v", "a", "l", "u", "e">> } \X { <<"0">>, <<"1", "2", "0", "0">>, <<"1", "2", "0", "1">> })
  \cup ({ <<"t", "r", "a", "i", "n", "i", "n", "g", "_", "s", "h", "o", "t", "s">> } \X { <<"0">>, <<"7">> })
  \cup ({ <<"r", "o", "t", "a", "t", "i", "o", "n">> } \X { <<"0">>, <<"9", "0">>, <<"1", "8", "0">>, <<"2", "7", "0">>, <<"-", "9", "0">>, <<"-", "1", "8", "0">>, <<"-", "2", "7", "0">>, <<"4", "5">>, <<"3", "6", "0">> })
  \cup ({ <<"i", "n", "t", "e", "r", "v", "a", "l">>, <<"I", "n", "t", "e", "r", "v", "a", "l">> } \X { <<"0">>, <<"9", "9", "9">>, <<"1", "0", "0", "0">>, <<"1", "0", "0", "1">>, <<"7", "0", "0", "0", "0">>, <<"4", "2", "9", "4", "9", "6", "7", "2", "9", "5">> })
  \cup ({ <<"t", "i", "m", "e", "z", "o", "n", "e">> } \X { <<"Z">>, <<"U", "T">>, <<"U", "T", "C">>, <<"G", "M", "T", "0">> })
  \cup ({ <<"f", "r", "a", "m", "e", "s", "i", "z", "e">> } \X { <<"V", "G", "A">>, <<"6", "4", "0", "x", "4", "8", "0">>, <<"q", "x", "g", "a">>, <<"1", "2", "8", "0", "x", "7", "2", "0">> })
  \cup ({ <<"w", "b", "_", "m", "o", "d", "e">> } \X { <<"s", "u", "n", "n", "y">>, <<"H", "o", "m", "e">>, <<"s", "u", "n">> })
  \cup ({ <<"s", "p", "e", "c", "i", "a", "l", "_", "e", "f", "f", "e", "c", "t">> } \X { <<"S", "e", "p", "i", "a">>, <<"r", "e", "d", " ", "t", "i", "n", "t">>, <<"r", "e", "d">> })

\* The calls set-up mode makes between loads and saves.
SetupInputs == {
  << <<"q", "u", "a", "l", "i", "t", "y">>, <<"3", "3">> >>, << <<"q", "u", "a", "l", "i", "t", "y">>, <<"a", "b", "c">> >>,
  << <<"r", "o", "t", "a", "t", "i", "o", "n">>, <<"2", "7", "0">> >>, << <<"i", "n", "t", "e", "r", "v", "a", "l">>, <<"7", "0", "0", "0", "0">> >>,
  << <<"f", "r", "a", "m", "e", "s", "i", "z", "e">>, <<"s", "v", "g", "a">> >>, << <<"a", "g", "c", "_", "g", "a", "i", "n">>, <<"1">> >>,
  << <<"t", "i", "m", "e", "z", "o", "n", "e">>, <<"Z">> >>, << <<"l", "e", "n", "c">>, <<"0">> >>,
  << <<"w", "b", "_", "m", "o", "d", "e">>, <<"o", "f", "f", "i", "c", "e">> >>, << <<"f", "o", "o">>, <<"b", "a", "r">> >> }

NoOut == <<>>

\* no stream is open when the program starts
NoStreams == {}

\* the streams after an operation that opens no file
Untouched(held) == [held |-> held, opened |-> FALSE, closed |-> FALSE]

Init ==
  /\ cfg \in DefaultConfigurations
  /\ file \in InitialFiles
  /\ last = [op |-> "init", key |-> <<>>, value |-> <<>>, ret |-> 0, ok |-> TRUE,
             before |-> cfg, out |-> NoOut]
  /\ sets = 0
  /\ saved = [valid |-> FALSE, cfg |-> cfg]
  /\ streams = Untouched(NoStreams)

\* a direct call cfg.config_set(key, value)
ConfigSet(key, value) ==
  /\ sets < MaxSets
  /\ LET r == config_set(cfg, key, value)
     IN /\ cfg' = r.cfg
        /\ last' = [op |-> "set", key |-> key, value |-> value, ret |-> r.ret,
                    ok |-> TRUE, before |-> cfg, out |-> NoOut]
  /\ sets' = sets + 1
  /\ streams' = Untouched(streams.held)
  /\ UNCHANGED <<file, saved>>

LoadConfig ==
  /\ \E r \in {loadConfig(cfg, file, streams.held)} :
        /\ cfg' = r.cfg
        /\ streams' = [held |-> r.held, opened |-> r.opened, closed |-> r.closed]
        /\ last' = [op |-> "load", key |-> <<>>, value |-> <<>>, ret |-> 0,
                    ok |-> r.ret, before |-> cfg, out |-> NoOut]
  /\ UNCHANGED <<file, sets, saved>>

SaveConfig(opened) ==
  /\ \E r \in {saveConfig(cfg, file, opened, streams.held)} :
        /\ file' = r.file
        /\ streams' = [held |-> r.held, opened |-> r.opened, closed |-> r.closed]
        /\ last' = [op |-> "save", key |-> <<>>, value |-> <<>>, ret |-> 0,
                    ok |-> r.ret, before |-> cfg, out |-> NoOut]
        /\ saved' = IF r.ret THEN [valid |-> TRUE, cfg |-> cfg] ELSE saved
  /\ UNCHANGED <<cfg, sets>>

ConfigAsJSON ==
  /\ last' = [op |-> "json", key |-> <<>>, value |-> <<>>, ret |-> 0, ok |-> TRUE,
              before |-> cfg, out |-> configAsJSON(cfg)]
  /\ streams' = Untouched(streams.held)
  /\ UNCHANGED <<cfg, file, sets, saved>>

\* Set-up mode and boot: loads, saves, JSON renderings and config_set calls.
Next ==
  \/ \E in \in SetupInputs : ConfigSet(in[1], in[2])
  \/ LoadConfig
  \/ \E opened \in BOOLEAN : SaveConfig(opened)
  \/ ConfigAsJSON

Spec == Init /\ [][Next]_vars

\* config_set alone, over every key and every value text.
InitSet == Init /\ file = AbsentFile

NextSet == \E in \in Inputs : ConfigSet(in[1], in[2])

SpecSet == InitSet /\ [][NextSet]_vars

(***************************************************************************)
(* Properties.                                                             *)
(***************************************************************************)
\* the last operation was config_set with a key spelled k, in any case
SetOf(k) == last.op = "set" /\ strcasecmp(last.key, k) = 0

\* the presets config_set can select
KnownPresets == { FRAMESIZE_QQVGA, FRAMESIZE_QCIF, FRAMESIZE_HQVGA, FRAMESIZE_QVGA,
                  FRAMESIZE_CIF, FRAMESIZE_VGA, FRAMESIZE_SVGA, FRAMESIZE_XGA,
                  FRAMESIZE_SXGA, FRAMESIZE_UXGA, FRAMESIZE_QXGA }

BoolMembers == { "m_enable_busy_led", "m_enable_flash", "m_colorbar", "m_hmirror",
                 "m_vflip", "m_awb", "m_awb_gain", "m_agc", "m_aec", "m_aec2",
                 "m_dcw", "m_bpc", "m_wpc", "m_raw_gma", "m_lenc" }

\* every member of the object c is inside its domain
InDomain(c) ==
  /\ c.m_capture_interval.hi \in 0..(HalfWord - 1)
  /\ c.m_capture_interval.lo \in 0..(HalfWord - 1)
  /\ c.m_capture_interval.hi > 0 \/ c.m_capture_interval.lo >= 1000
  /\ c.m_orientation \in {1, 6, 3, 8}
  /\ c.m_training_shots >= 0
  /\ c.m_frame_size \in KnownPresets
  /\ c.m_quality \in 10..63
  /\ c.m_contrast \in -2..2
  /\ c.m_brightness \in -2..2
  /\ c.m_saturation \in -2..2
  /\ c.m_ae_level \in -2..2
  /\ c.m_agc_gain \in 0..31
  /\ c.m_gainceiling \in 0..6
  /\ c.m_aec_value \in 0..1200
  /\ c.m_wb_mode \in {WbModeAuto, WbModeSunny, WbModeCloudy, WbModeOffice, WbModeHome}
  /\ c.m_special_effect \in SpecialEffectNone..SpecialEffectSepia
  /\ Len(c.m_tzinfo) < TzinfoSize
  /\ \A m \in BoolMembers : c[m] \in BOOLEAN

\* C1: whatever config_set calls were made, with whatever keys and value
\* texts and whether they succeeded or failed, every member of the object is
\* inside its domain.
StoreInvariant == InDomain(cfg)

\* C1 witness: a call succeeded and changed the object, and one that failed
\* is covered by the same behaviours (see AtomicFailureReached).
StoreInvariantReached ==
  last.op = "set" /\ last.ret = 0 /\ cfg # last.before /\ InDomain(last.before)

\* the keys whose value is parsed as an integer, and the member each sets
IntKeys == { <<"i", "n", "t", "e", "r", "v", "a", "l">>, <<"r", "o", "t", "a", "t", "i", "o", "n">>, <<"t", "r", "a", "i", "n", "i", "n", "g", "_", "s", "h", "o", "t", "s">>, <<"q", "u", "a", "l", "i", "t", "y">>,
             <<"c", "o", "n", "t", "r", "a", "s", "t">>, <<"b", "r", "i", "g", "h", "t", "n", "e", "s", "s">>, <<"s", "a", "t", "u", "r", "a", "t", "i", "o", "n">>, <<"a", "g", "c", "_", "g", "a", "i", "n">>,
             <<"g", "a", "i", "n", "c", "e", "i", "l", "i", "n", "g">>, <<"a", "e", "c", "_", "v", "a", "l", "u", "e">>, <<"a", "e", "_", "l", "e", "v", "e", "l">> }

MemberOf(k) ==
  CASE k = <<"i", "n", "t", "e", "r", "v", "a", "l">> -> "m_capture_interval"
    [] k = <<"r", "o", "t", "a", "t", "i", "o", "n">> -> "m_orientation"
    [] k = <<"t", "r", "a", "i", "n", "i", "n", "g", "_", "s", "h", "o", "t", "s">> -> "m_training_shots"
    [] k = <<"q", "u", "a", "l", "i", "t", "y">> -> "m_quality"
    [] k = <<"c", "o", "n", "t", "r", "a", "s", "t">> -> "m_contrast"
    [] k = <<"b", "r", "i", "g", "h", "t", "n", "e", "s", "s">> -> "m_brightness"
    [] k = <<"s", "a", "t", "u", "r", "a", "t", "i", "o", "n">> -> "m_saturation"
    [] k = <<"a", "g", "c", "_", "g", "a", "i", "n">> -> "m_agc_gain"
    [] k = <<"g", "a", "i", "n", "c", "e", "i", "l", "i", "n", "g">> -> "m_gainceiling"
    [] k = <<"a", "e", "c", "_", "v", "a", "l", "u", "e">> -> "m_aec_value"
    [] k = <<"a", "e", "_", "l", "e", "v", "e", "l">> -> "m_ae_level"
    [] k = <<"e", "n", "a", "b", "l", "e", "_", "b", "u", "s", "y", "_", "l", "e", "d">> -> "m_enable_busy_led"
    [] k = <<"e", "n", "a", "b", "l", "e", "_", "f", "l", "a", "s", "h">> -> "m_enable_flash"
    [] k = <<"c", "o", "l", "o", "r", "b", "a", "r">> -> "m_colorbar"
    [] k = <<"h", "m", "i", "r", "r", "o", "r">> -> "m_hmirror"
    [] k = <<"v", "f", "l", "i", "p">> -> "m_vflip"
    [] k = <<"a", "w", "b">> -> "m_awb"
    [] k = <<"a", "w", "b", "_", "g", "a", "i", "n">> -> "m_awb_gain"
    [] k = <<"a", "g", "c">> -> "m_agc"
    [] k = <<"a", "e", "c">> -> "m_aec"
    [] k = <<"a", "e", "c", "2">> -> "m_aec2"
    [] k = <<"d", "c", "w">> -> "m_dcw"
    [] k = <<"b", "p", "c">> -> "m_bpc"
    [] k = <<"w", "p", "c">> -> "m_wpc"
    [] k = <<"r", "a", "w", "_", "g", "m", "a">> -> "m_raw_gma"
    [] k = <<"l", "e", "n", "c">> -> "m_lenc"

\* a text without a single digit: no integer parse can accept it
WhollyNonNumeric(v) == \A i \in 1..Len(v) : ~isdigit(v[i])

\* the spellings a boolean may have
BoolSpelling(v) ==
  \E t \in { <<"t", "r", "u", "e">>, <<"y", "e", "s">>, <<"1">>, <<"f", "a", "l", "s", "e">>, <<"n", "o">>, <<"0">> } :
    Len(v) = Len(t) /\ \A i \in 1..Len(v) : tolower(v[i]) = t[i]

\* C2: a value text that fails the primitive parse of the key's type (no
\* digit at all for an integer key, no boolean spelling for a boolean key)
\* makes config_set return non-zero and leaves the member as it was.
MalformedRejected ==
  /\ \A k \in IntKeys :
       SetOf(k) /\ WhollyNonNumeric(last.value)
         => last.ret # 0 /\ cfg[MemberOf(k)] = last.before[MemberOf(k)]
  /\ \A k \in BoolKeys :
       SetOf(k) /\ ~BoolSpelling(last.value)
         => last.ret # 0 /\ cfg[MemberOf(k)] = last.before[MemberOf(k)]

\* C3: a config_set call that returns a failure code leaves every member of
\* the object exactly as it was before the call.
FailureIsAtomic == last.op = "set" /\ last.ret # 0 => cfg = last.before

\* C3 witness: a boolean member that was true, and a call on its key failed.
AtomicFailureReached ==
  /\ SetOf(<<"l", "e", "n", "c">>) /\ last.ret # 0
  /\ last.before.m_lenc = TRUE

\* the integer members with a documented range: key, member, least and
\* greatest value text accepted (bounded: whether there is a greatest one),
\* and what is subtracted from the value before it is stored
Range(k, m, lo, hi, b, off) ==
  [key |-> k, member |-> m, min |-> lo, max |-> hi, bounded |-> b, offset |-> off]

Ranges == {
  Range(<<"q", "u", "a", "l", "i", "t", "y">>, "m_quality", 10, 63, TRUE, 0),
  Range(<<"c", "o", "n", "t", "r", "a", "s", "t">>, "m_contrast", -2, 2, TRUE, 0),
  Range(<<"b", "r", "i", "g", "h", "t", "n", "e", "s", "s">>, "m_brightness", -2, 2, TRUE, 0),
  Range(<<"s", "a", "t", "u", "r", "a", "t", "i", "o", "n">>, "m_saturation", -2, 2, TRUE, 0),
  Range(<<"a", "e", "_", "l", "e", "v", "e", "l">>, "m_ae_level", -2, 2, TRUE, 0),
  Range(<<"a", "g", "c", "_", "g", "a", "i", "n">>, "m_agc_gain", 1, 32, TRUE, 1),
  Range(<<"g", "a", "i", "n", "c", "e", "i", "l", "i", "n", "g">>, "m_gainceiling", 0, 6, TRUE, 0),
  Range(<<"a", "e", "c", "_", "v", "a", "l", "u", "e">>, "m_aec_value", 0, 1200, TRUE, 0),
  Range(<<"t", "r", "a", "i", "n", "i", "n", "g", "_", "s", "h", "o", "t", "s">>, "m_training_shots", 0, 0, FALSE, 0) }

\* C4: for every integer member with a documented range, the value one
\* below the minimum or one above the maximum is refused, and the minimum
\* and the maximum are accepted and stored (agc_gain as value - 1).
RangeBoundaries ==
  \A r \in Ranges :
    SetOf(r.key) =>
      /\ last.value = StringInt(r.min - 1) => last.ret # 0
      /\ r.bounded /\ last.value = StringInt(r.max + 1) => last.ret # 0
      /\ last.value = StringInt(r.min)
           => last.ret = 0 /\ cfg[r.member] = r.min - r.offset
      /\ r.bounded /\ last.value = StringInt(r.max)
           => last.ret = 0 /\ cfg[r.member] = r.max - r.offset

\* C4 witness: agc_gain = 32, the maximum, was accepted and stored as 31.
RangeBoundaryReached ==
  /\ SetOf(<<"a", "g", "c", "_", "g", "a", "i", "n">>) /\ last.value = <<"3", "2">> /\ last.ret = 0
  /\ last.before.m_agc_gain # 31 /\ cfg.m_agc_gain = 31

\* the key/value lines of a file, comments left out
KvLines(lines) == SelectSeq(lines, LAMBDA l : l.kind = "kv")

\* a load result r succeeded and left the object c
Loaded(r, c) == r.ret /\ r.cfg = c

\* C5: loading the lines saveConfig wrote gives back the object that was
\* saved, member by member, with every call succeeding: from whatever the
\* object has become since the save, and from any default object.
SaveLoadRoundTrip ==
  /\ last.op = "load" /\ saved.valid => last.ok /\ cfg = saved.cfg
  /\ last.op = "save" /\ last.ok =>
       \A other \in DefaultConfigurations :
         Loaded(loadConfig(other, file, NoStreams), cfg)

\* C5 witness: the object was changed after a save, and a load restored it.
RoundTripReached ==
  /\ last.op = "load" /\ saved.valid /\ last.ok
  /\ last.before # saved.cfg /\ cfg = saved.cfg

\* the text the JSON rendering and the saved file show for key k
JsonText(c, k) ==
  LET j == configAsJSON(c) IN j[CHOOSE i \in 1..Len(j) : j[i].key = k].text

SavedText(c, k) ==
  LET s == saveConfig_lines(c) IN s[CHOOSE i \in 1..Len(s) : s[i].key = k].value

\* a decimal integer in its usual spelling: an optional minus sign, digits,
\* no leading zero
CanonicalInt(v) ==
  LET neg  == Len(v) > 0 /\ v[1] = "-"
      body == IF neg THEN Tail(v) ELSE v
  IN /\ Len(body) > 0
     /\ \A i \in 1..Len(body) : isdigit(body[i])
     /\ body[1] = "0" => Len(body) = 1 /\ ~neg

\* C6: rotation d is stored as the orientation code 0->1, 90->6, 180->3,
\* 270->8 and renders as d again; -90, -180, -270 render as 270, 180, 90;
\* every other integer is refused.
OrientationRoundTrip ==
  SetOf(<<"r", "o", "t", "a", "t", "i", "o", "n">>) =>
    /\ \A d \in {0, 90, 180, 270, -90, -180, -270} :
         last.value = StringInt(d) =>
           /\ last.ret = 0
           /\ cfg.m_orientation =
                (CASE d % 360 = 0 -> 1 [] d % 360 = 90 -> 6
                   [] d % 360 = 180 -> 3 [] d % 360 = 270 -> 8)
           /\ JsonText(cfg, <<"r", "o", "t", "a", "t", "i", "o", "n">>) = StringInt(d % 360)
           /\ SavedText(cfg, <<"r", "o", "t", "a", "t", "i", "o", "n">>) = StringInt(d % 360)
    /\ CanonicalInt(last.value)
         /\ (\A d \in {0, 90, 180, 270, -90, -180, -270} : last.value # StringInt(d))
         => last.ret # 0

\* C6 witness: rotation = -90 was set on an object that had another
\* orientation, and is stored as code 8.
OrientationReached ==
  /\ SetOf(<<"r", "o", "t", "a", "t", "i", "o", "n">>) /\ last.value = <<"-", "9", "0">> /\ last.ret = 0
  /\ last.before.m_orientation # 8 /\ cfg.m_orientation = 8

\* the key matches no settable member
Ignored(k) == \A s \in SettableKeys : strcasecmp(k, s) # 0

\* C7: config_set with an unknown or a deprecated key returns success for
\* any value text and changes nothing, and a file holding that pair loads.
IgnoredKeys ==
  last.op = "set" /\ Ignored(last.key) =>
    /\ last.ret = 0
    /\ cfg = last.before
    /\ Loaded(loadConfig(last.before,
                         [exists |-> TRUE, lines |-> <<Line(last.key, last.value)>>],
                         NoStreams),
              last.before)

\* C7 witness: the deprecated key ssid was set to a text no parser accepts.
IgnoredKeyReached ==
  /\ SetOf(<<"s", "s", "i", "d">>) /\ last.value = <<"a", "b", "c">> /\ last.ret = 0

\* what config_set returns, and the object it leaves, for each pair of a
\* sequence when every pair is handed to it, one after the other, from i on
RECURSIVE Trail(_, _, _)
Trail(c, pairs, i) ==
  IF i > Len(pairs) THEN <<>>
  ELSE LET r == config_set(c, pairs[i].key, pairs[i].value)
       IN <<r>> \o Trail(r.cfg, pairs, i + 1)

\* C8: loadConfig applies the pairs in order up to and including the first
\* one config_set refuses, applies none after it and returns false; it
\* returns true when none is refused, and true with the object untouched
\* when there is no file.
LoadOutcomes ==
  last.op = "load" =>
    IF ~file.exists THEN last.ok /\ cfg = last.before
    ELSE LET trail   == Trail(last.before, KvLines(file.lines), 1)
             refused == { n \in 1..Len(trail) : trail[n].ret # 0 }
             first   == CHOOSE n \in refused : \A m \in refused : n <= m
         IN IF refused = {}
              THEN last.ok /\ cfg = (IF trail = <<>> THEN last.before
                                                    ELSE trail[Len(trail)].cfg)
              ELSE ~last.ok /\ cfg = trail[first].cfg

\* C8 witness: a load failed at the second pair of a file, with the first
\* pair applied and the pairs after the second not.
LoadStoppedReached ==
  /\ last.op = "load" /\ ~last.ok /\ file.exists
  /\ last.before.m_contrast # 1 /\ cfg.m_contrast = 1
  /\ last.before.m_hmirror = FALSE /\ cfg.m_hmirror = FALSE
  /\ KvLines(file.lines)[3] = Line(<<"h", "m", "i", "r", "r", "o", "r">>, <<"1">>)

\* C9: configAsJSON emits every documented key exactly once, the keys in
\* the order saveConfig writes them, each with the text saveConfig writes
\* for it; booleans show as 0 or 1.
JsonSaveAgreement ==
  last.op = "json" =>
    LET j == last.out
        s == KvLines(saveConfig_lines(cfg))
    IN /\ Len(j) = Len(s)
       /\ \A i \in 1..Len(j) : j[i].key = s[i].key /\ j[i].text = s[i].value
       /\ \A k \in SettableKeys : Cardinality({i \in 1..Len(j) : j[i].key = k}) = 1
       /\ \A i \in 1..Len(j) : j[i].key \in SettableKeys
       /\ \A i \in 1..Len(j) : j[i].key \in BoolKeys => j[i].text \in { <<"0">>, <<"1">> }

\* C9 witness: the JSON of an object whose frame size was set in set-up mode.
JsonRenderedReached ==
  /\ last.op = "json" /\ Len(last.out) > 0
  /\ cfg.m_frame_size = FRAMESIZE_SVGA /\ sets > 0

\* the number a short decimal text (CanonicalInt, at most 9 digits) spells
RECURSIVE DigitsValue(_)
DigitsValue(body) ==
  IF body = <<>> THEN 0
  ELSE 10 * DigitsValue(SubSeq(body, 1, Len(body) - 1)) + DigitVal(body[Len(body)])

\* the number the text v spells lies outside the range r
OutOfRange(v, r) ==
  LET neg  == v[1] = "-"
      body == IF neg THEN Tail(v) ELSE v
      n    == IF neg THEN -DigitsValue(body) ELSE DigitsValue(body)
  IN IF Len(body) > 9 THEN neg \/ r.bounded
     ELSE n < r.min \/ (r.bounded /\ n > r.max)

\* C10: interval = v, v a decimal number, succeeds; below 1000 it stores
\* exactly 1000, from 1000 on it stores v itself.  No other member is
\* clamped: a number outside the range of a ranged member is refused.
IntervalClamp ==
  /\ SetOf(<<"i", "n", "t", "e", "r", "v", "a", "l">>) /\ CanonicalInt(last.value) =>
       /\ last.ret = 0
       /\ IF last.value[1] = "-" \/ Len(last.value) <= 3
            THEN cfg.m_capture_interval = U32FromInt(1000)
            ELSE StringU32(cfg.m_capture_interval) = last.value
  /\ \A r \in Ranges :
       SetOf(r.key) /\ CanonicalInt(last.value) /\ OutOfRange(last.value, r)
         => last.ret # 0 /\ cfg = last.before
\* C11: no FILE stream is held once loadConfig or saveConfig has returned.
\* The operation closed a stream exactly when it opened one: loadConfig opens
\* one when the file exists, whether the parse succeeds or fails, saveConfig
\* when it reports success; when the open fails nothing is opened or held.
FileRelease ==
  /\ streams.held = NoStreams
  /\ streams.opened <=> streams.closed
  /\ last.op = "load" => (streams.opened <=> file.exists)
  /\ last.op = "save" => (streams.opened <=> last.ok)

\* C11 witness: a load that stopped at a refused pair had opened the file
\* and closed it.
FileReleasedOnErrorReached ==
  /\ last.op = "load" /\ ~last.ok /\ file.exists
  /\ streams.opened /\ streams.closed /\ streams.held = NoStreams
====
